---- MODULE Spec2Model ----
(***************************************************************************)
(* A model of the governance layer of craftsman: the permission engine     *)
(* (permission/rules.py), the hook dispatcher (hooks/hook_system.py), the  *)
(* doom-loop detector (graph/safety.py) and tool-output pruning            *)
(* (graph/compaction.py).                                                  *)
(*                                                                         *)
(* Python strings are sequences of one-character strings, so that glob     *)
(* matching, key construction, slicing and length are computed and not     *)
(* assumed.                                                                *)
(***************************************************************************)
EXTENDS Integers, Sequences, FiniteSets, TLC

VARIABLES
    session_approvals,  \* rules.py: _session_approvals, key -> action
    approval_log,       \* history: the remember_approval calls since the last clear
    ruleset,            \* the ruleset the caller holds (get_agent_rules / merge_rules result)
    call,               \* the most recent permission call with its inputs and result
    default_rules,      \* rules.py: the items of the module's DEFAULT_RULES list
    threads,            \* per thread of the session: its permission call in progress
    platform,           \* hook_system.py: sys.platform, "posix" or "win32"
    hook_config,        \* HookSystem.config: [enabled, hooks]
    callers,            \* the coroutines of the agent loop that call the dispatcher
    inv,                \* per caller: the trigger invocation in progress
    recent_tool_calls,  \* the tool calls the loop has recorded, oldest first
    doom_loop,          \* check_doom_loop's answer after the latest call
    messages,           \* the conversation's message list
    pruned,             \* the most recent prune_tool_outputs call and its result
    compact             \* the most recent should_compact call and its result

permVars == <<session_approvals, approval_log, ruleset, call, default_rules, threads>>

hookVars == <<platform, hook_config, callers, inv>>

doomVars == <<recent_tool_calls, doom_loop>>

pruneVars == <<messages, pruned, compact>>

vars == <<permVars, hookVars, doomVars, pruneVars>>

(***************************************************************************)
(* Bounds of the model.                                                    *)
(***************************************************************************)
MaxLog == 2
MaxRules == 2
MaxHooks == 2
MaxCalls == 4
MaxMessages == 3
MaxTokensArg == 2
MaxProtectedArg == 2

(***************************************************************************)
(* Strings used as tool names, target patterns and globs.                  *)
(***************************************************************************)
Star == <<"*">>
s_write == <<"w", "r", "i", "t", "e">>
s_edit == <<"e", "d", "i", "t">>
s_bash == <<"b", "a", "s", "h">>
s_read == <<"r", "e", "a", "d">>
s_env == <<"*", ".", "e", "n", "v">>
s_env_any == <<"*", ".", "e", "n", "v", ".", "*">>
s_env_example == <<"*", ".", "e", "n", "v", ".", "e", "x", "a", "m", "p", "l", "e">>
s_md == <<"*", ".", "m", "d">>
s_plan == <<"*", "p", "l", "a", "n", "*">>
s_foo_py == <<"f", "o", "o", ".", "p", "y">>
s_secrets_env == <<"s", ".", "e", "n", "v">>
s_x_secrets_env == <<"x", ":", "s", ".", "e", "n", "v">>
s_read_x == <<"r", "e", "a", "d", ":", "x">>
s_notes_md == <<"n", ".", "m", "d">>
s_myplan_txt == <<"m", "y", "p", "l", "a", "n", ".", "t", "x", "t">>

None == "None"

PermissionAction == {"allow", "deny", "ask"}
ApprovalPolicy == {"ask", "auto", "yolo", "never"}

PermissionRule(permission, pattern, action) ==
    [permission |-> permission, pattern |-> pattern, action |-> action]

DEFAULT_RULES ==
    << PermissionRule(Star, Star, "allow"),
       PermissionRule(s_write, Star, "ask"),
       PermissionRule(s_edit, Star, "ask"),
       PermissionRule(s_bash, Star, "ask"),
       PermissionRule(s_read, s_env, "deny"),
       PermissionRule(s_read, s_env_any, "deny"),
       PermissionRule(s_read, s_env_example, "allow") >>

(***************************************************************************)
(* fnmatch.fnmatch(name, pat) on POSIX (normcase is the identity): '*'     *)
(* matches any run of characters, '?' any one character, anything else     *)
(* itself.  No string of the model holds '[', so no character class arises.*)
(***************************************************************************)
RECURSIVE fnmatch(_, _)
fnmatch(name, pat) ==
    IF pat = <<>> THEN name = <<>>
    ELSE IF Head(pat) = "*"
         THEN fnmatch(name, Tail(pat))
              \/ (name # <<>> /\ fnmatch(Tail(name), pat))
    ELSE IF Head(pat) = "?"
         THEN name # <<>> /\ fnmatch(Tail(name), Tail(pat))
    ELSE name # <<>> /\ Head(name) = Head(pat) /\ fnmatch(Tail(name), Tail(pat))

(***************************************************************************)
(* apply_policy                                                            *)
(***************************************************************************)
apply_policy_yolo_overrides(action, policy) ==
    IF policy = "yolo" THEN "allow"
    ELSE IF action = "deny" THEN "deny"
    ELSE IF action = "allow" THEN (IF policy = "never" THEN "deny" ELSE "allow")
    ELSE IF policy = "auto" THEN "allow"
    ELSE IF policy = "never" THEN "deny"
    ELSE "ask"

apply_policy_auto_asks(action, policy) ==
    IF action = "deny" THEN "deny"
    ELSE IF action = "allow" THEN (IF policy = "never" THEN "deny" ELSE "allow")
    ELSE IF policy = "yolo" THEN "allow"
    ELSE IF policy = "never" THEN "deny"
    ELSE "ask"

apply_policy(action, policy) ==
    IF action = "deny" THEN "deny"
    ELSE IF action = "allow" THEN (IF policy = "never" THEN "deny" ELSE "allow")
    ELSE IF policy = "yolo" THEN "allow"
    ELSE IF policy = "auto" THEN "allow"
    ELSE IF policy = "never" THEN "deny"
    ELSE "ask"

(***************************************************************************)
(* Session approval memory                                                 *)
(***************************************************************************)
make_approval_key(tool, pattern) == tool \o <<":">> \o pattern

remember_store_keeps_first(approvals, tool, pattern, action) ==
    LET key == make_approval_key(tool, pattern)
    IN  [k \in (DOMAIN approvals) \cup {key} |->
            IF k \in DOMAIN approvals THEN approvals[k] ELSE action]

remember_store_drops_others(approvals, tool, pattern, action) ==
    LET key == make_approval_key(tool, pattern)
    IN  [k \in {key} |-> action]

remember_store(approvals, tool, pattern, action) ==
    LET key == make_approval_key(tool, pattern)
    IN  [k \in (DOMAIN approvals) \cup {key} |->
            IF k = key THEN action ELSE approvals[k]]

clear_store_rebinds_local(approvals) == approvals

\* _session_approvals.clear()
clear_store(approvals) == <<>>

get_remembered_approval_misses(tool, pattern) == None

get_remembered_approval(tool, pattern) ==
    LET key == make_approval_key(tool, pattern)
    IN  IF key \in DOMAIN session_approvals THEN session_approvals[key] ELSE None

(***************************************************************************)
(* evaluate_permission                                                     *)
(***************************************************************************)
rule_matches(rule, tool_name, pattern) ==
    /\ fnmatch(tool_name, rule.permission) \/ fnmatch(rule.permission, tool_name)
    /\ fnmatch(pattern, rule.pattern) \/ rule.pattern = Star

RECURSIVE rule_scan_first_wins(_, _, _, _)
rule_scan_first_wins(tool_name, pattern, rules, result) ==
    IF rules = <<>> THEN result
    ELSE IF rule_matches(Head(rules), tool_name, pattern) THEN Head(rules).action
    ELSE rule_scan_first_wins(tool_name, pattern, Tail(rules), result)

RECURSIVE rule_scan_loop(_, _, _, _)
rule_scan_loop(tool_name, pattern, rules, result) ==
    IF rules = <<>> THEN result
    ELSE rule_scan_loop(tool_name, pattern, Tail(rules),
            IF rule_matches(Head(rules), tool_name, pattern)
            THEN Head(rules).action ELSE result)

rule_scan(tool_name, pattern, rules, result) ==
    rule_scan_loop(tool_name, pattern, rules, result)

answered_from_memory(tool_name, pattern, check_memory) ==
    check_memory /\ get_remembered_approval(tool_name, pattern) # None

evaluate_permission_default_deny(tool_name, pattern, rules, check_memory) ==
    IF answered_from_memory(tool_name, pattern, check_memory)
    THEN get_remembered_approval(tool_name, pattern)
    ELSE rule_scan(tool_name, pattern,
                   IF rules = None THEN DEFAULT_RULES ELSE rules, "deny")

evaluate_permission(tool_name, pattern, rules, check_memory) ==
    IF answered_from_memory(tool_name, pattern, check_memory)
    THEN get_remembered_approval(tool_name, pattern)
    ELSE rule_scan(tool_name, pattern,
                   IF rules = None THEN DEFAULT_RULES ELSE rules, "ask")

merge_rules_later_first(first, second) == second \o first

merge_rules(first, second) == first \o second

AGENT_PERMISSIONS_planner_may_edit(agent_name) ==
    IF agent_name = "researcher"
    THEN << PermissionRule(s_write, Star, "deny"),
            PermissionRule(s_edit, Star, "deny"),
            PermissionRule(s_bash, Star, "ask") >>
    ELSE IF agent_name = "planner"
    THEN << PermissionRule(s_write, Star, "deny"),
            PermissionRule(s_write, s_md, "allow"),
            PermissionRule(s_write, s_plan, "allow") >>
    ELSE <<>>

AGENT_PERMISSIONS(agent_name) ==
    IF agent_name = "coder" THEN <<>>
    ELSE IF agent_name = "researcher"
    THEN << PermissionRule(s_write, Star, "deny"),
            PermissionRule(s_edit, Star, "deny"),
            PermissionRule(s_bash, Star, "ask") >>
    ELSE IF agent_name = "planner"
    THEN << PermissionRule(s_write, Star, "deny"),
            PermissionRule(s_write, s_md, "allow"),
            PermissionRule(s_write, s_plan, "allow"),
            PermissionRule(s_edit, Star, "deny") >>
    ELSE <<>>

get_agent_rules(agent_name) == merge_rules(DEFAULT_RULES, AGENT_PERMISSIONS(agent_name))

DEFAULT_RULES_after_accumulates(default, agent_name) ==
    merge_rules(default, AGENT_PERMISSIONS(agent_name))

\* The items of DEFAULT_RULES once get_agent_rules(agent_name) has returned:
\* the overrides are merged with a copy (DEFAULT_RULES.copy()) into a new
\* list (merged = []), so the module's list keeps its items.
DEFAULT_RULES_after(default, agent_name) == default

AgentNames == {"coder", "researcher", "planner", "reviewer"}

(***************************************************************************)
(* The permission engine as a state machine.  call records the most recent *)
(* evaluate_permission / apply_policy call; a write to the cache forgets   *)
(* it, so call.result was always computed against the current cache.       *)
(***************************************************************************)
NoCall ==
    [op |-> "none", agent |-> None, tool |-> <<>>, pattern |-> <<>>, rules |-> <<>>,
     check_memory |-> FALSE, from_memory |-> FALSE, result |-> None,
     policy |-> None, final |-> None, cleared |-> {}, again |-> FALSE]

\* The rulesets a session evaluates against: every agent's ruleset (rules = None
\* stands for DEFAULT_RULES, which is also the coder's), an override list passed
\* without the base ruleset, and no rules at all.
SessionRulesets ==
    {get_agent_rules(a) : a \in AgentNames}
    \cup {AGENT_PERMISSIONS("researcher"), <<>>}

\* (tool, pattern) queries of a session; two of them build the same cache key.
Queries ==
    {<<s_write, s_foo_py>>, <<s_read, s_secrets_env>>,
     <<s_read, s_x_secrets_env>>, <<s_read_x, s_secrets_env>>}

\* The queries whose decision the user is asked to remember.
RememberPairs == {<<s_read, s_x_secrets_env>>, <<s_read_x, s_secrets_env>>}

RememberApproval(tool, pattern, action) ==
    /\ Len(approval_log) < MaxLog
    /\ session_approvals' = remember_store(session_approvals, tool, pattern, action)
    /\ approval_log' = Append(approval_log,
                              [tool |-> tool, pattern |-> pattern, action |-> action])
    /\ call' = NoCall
    /\ UNCHANGED <<ruleset, default_rules, threads, hookVars, doomVars, pruneVars>>

\* call.cleared keeps, for as long as nothing is remembered again, the keys
\* the latest clear dropped from the cache.
ClearSessionApprovals ==
    /\ session_approvals' = clear_store(session_approvals)
    /\ approval_log' = <<>>
    /\ call' = [NoCall EXCEPT !.op = "clear",
                              !.cleared = DOMAIN session_approvals \cup call.cleared]
    /\ UNCHANGED <<ruleset, default_rules, threads, hookVars, doomVars, pruneVars>>

EvaluatePermission(tool_name, pattern, rules, check_memory) ==
    /\ call' = [NoCall EXCEPT
                  !.op = "evaluate",
                  !.cleared = call.cleared,
                  !.tool = tool_name,
                  !.pattern = pattern,
                  !.rules = IF rules = None THEN default_rules ELSE rules,
                  !.check_memory = check_memory,
                  !.from_memory = answered_from_memory(tool_name, pattern, check_memory),
                  !.result = evaluate_permission(tool_name, pattern,
                                 IF rules = None THEN default_rules ELSE rules,
                                 check_memory)]
    /\ UNCHANGED <<session_approvals, approval_log, ruleset, default_rules, threads>>
    /\ UNCHANGED <<hookVars, doomVars, pruneVars>>

\* The caller's final transform of the decision just evaluated.
ApplyPolicy(policy) ==
    /\ call.op = "evaluate"
    /\ call' = [call EXCEPT !.op = "apply_policy",
                            !.policy = policy,
                            !.final = apply_policy(call.result, policy)]
    /\ UNCHANGED <<session_approvals, approval_log, ruleset, default_rules, threads>>
    /\ UNCHANGED <<hookVars, doomVars, pruneVars>>

\* merge_rules(ruleset, [rule]): the caller appends one rule to its ruleset.
MergeRules(rule) ==
    /\ Len(ruleset) < MaxRules
    /\ ruleset' = merge_rules(ruleset, <<rule>>)
    /\ call' = NoCall
    /\ UNCHANGED <<session_approvals, approval_log, default_rules, threads>>
    /\ UNCHANGED <<hookVars, doomVars, pruneVars>>

\* get_agent_rules(agent_name): the caller takes the agent's ruleset as its own;
\* call.again tells that the call before was a get_agent_rules call too.
GetAgentRules(agent_name) ==
    /\ ruleset' = merge_rules(default_rules, AGENT_PERMISSIONS(agent_name))
    /\ default_rules' = DEFAULT_RULES_after(default_rules, agent_name)
    /\ call' = [NoCall EXCEPT !.op = "get_agent_rules", !.agent = agent_name,
                              !.again = (call.op = "get_agent_rules")]
    /\ UNCHANGED <<session_approvals, approval_log, threads, hookVars, doomVars, pruneVars>>

(***************************************************************************)
(* The cache under concurrent callers.  A thread may be preempted between  *)
(* any two statements, so a call takes one step per statement that reads   *)
(* or writes _session_approvals; the dict operation itself (get, item      *)
(* assignment, clear) is one indivisible step of the interpreter.          *)
(***************************************************************************)
ThreadIds == {1, 2}

IdleThread ==
    [pc |-> "idle", tool |-> <<>>, pattern |-> <<>>, action |-> None,
     remembered |-> None, seen |-> <<>>, result |-> None]

\* The threads holding a lock that guards _session_approvals: the module
\* creates no lock and no call acquires one.
lock_holders == {}

\* evaluate_permission is entered; with check_memory the lookup comes first.
CallEvaluatePermission(t, tool_name, pattern, check_memory) ==
    /\ threads[t].pc = "idle"
    /\ threads' = [threads EXCEPT ![t] =
           [IdleThread EXCEPT !.pc = IF check_memory THEN "get" ELSE "scan",
                              !.tool = tool_name, !.pattern = pattern]]
    /\ UNCHANGED <<session_approvals, approval_log, ruleset, call, default_rules>>
    /\ UNCHANGED <<hookVars, doomVars, pruneVars>>

\* remembered = get_remembered_approval(tool_name, pattern); seen is the
\* history of the writes made before this read.
GetRememberedApproval(t) ==
    /\ threads[t].pc = "get"
    /\ LET remembered == get_remembered_approval(threads[t].tool, threads[t].pattern)
       IN  threads' = [threads EXCEPT ![t].remembered = remembered,
                                      ![t].seen = approval_log,
                                      ![t].result = remembered,
                                      ![t].pc = IF remembered # None THEN "return"
                                                ELSE "scan"]
    /\ UNCHANGED <<session_approvals, approval_log, ruleset, call, default_rules>>
    /\ UNCHANGED <<hookVars, doomVars, pruneVars>>

\* The loop over the rules.
RuleLoop(t) ==
    /\ threads[t].pc = "scan"
    /\ threads' = [threads EXCEPT
           ![t].result = rule_scan(threads[t].tool, threads[t].pattern, ruleset, "ask"),
           ![t].pc = "return"]
    /\ UNCHANGED <<session_approvals, approval_log, ruleset, call, default_rules>>
    /\ UNCHANGED <<hookVars, doomVars, pruneVars>>

ThreadReturns(t) ==
    /\ threads[t].pc = "return"
    /\ threads' = [threads EXCEPT ![t] = IdleThread]
    /\ UNCHANGED <<session_approvals, approval_log, ruleset, call, default_rules>>
    /\ UNCHANGED <<hookVars, doomVars, pruneVars>>

\* remember_approval is entered: key = _make_approval_key(tool, pattern).
CallRememberApproval(t, tool, pattern, action) ==
    /\ threads[t].pc = "idle"
    /\ Len(approval_log) + Cardinality({u \in ThreadIds : threads[u].pc = "store"}) < MaxLog
    /\ threads' = [threads EXCEPT ![t] =
           [IdleThread EXCEPT !.pc = "store", !.tool = tool, !.pattern = pattern,
                              !.action = action]]
    /\ UNCHANGED <<session_approvals, approval_log, ruleset, call, default_rules>>
    /\ UNCHANGED <<hookVars, doomVars, pruneVars>>

\* _session_approvals[key] = action, and remember_approval returns.
StoreApproval(t) ==
    /\ threads[t].pc = "store"
    /\ session_approvals' = remember_store(session_approvals, threads[t].tool,
                                           threads[t].pattern, threads[t].action)
    /\ approval_log' = Append(approval_log,
                              [tool |-> threads[t].tool, pattern |-> threads[t].pattern,
                               action |-> threads[t].action])
    /\ threads' = [threads EXCEPT ![t] = IdleThread]
    /\ UNCHANGED <<ruleset, call, default_rules, hookVars, doomVars, pruneVars>>

CallClearSessionApprovals(t) ==
    /\ threads[t].pc = "idle"
    /\ threads' = [threads EXCEPT ![t].pc = "clear"]
    /\ UNCHANGED <<session_approvals, approval_log, ruleset, call, default_rules>>
    /\ UNCHANGED <<hookVars, doomVars, pruneVars>>

\* _session_approvals.clear(), and clear_session_approvals returns.
ClearApprovals(t) ==
    /\ threads[t].pc = "clear"
    /\ session_approvals' = clear_store(session_approvals)
    /\ approval_log' = <<>>
    /\ threads' = [threads EXCEPT ![t] = IdleThread]
    /\ UNCHANGED <<ruleset, call, default_rules, hookVars, doomVars, pruneVars>>

(***************************************************************************)
(* Hook dispatcher (hooks/hook_system.py).  A trigger invocation is a      *)
(* coroutine: it runs from one await to the next in one step.  What the    *)
(* operating system and the hook processes do between the awaits (a        *)
(* process forks, exits, is reaped; the timeout of wait_for expires) is    *)
(* chosen nondeterministically.                                            *)
(***************************************************************************)
HookTrigger == {"before_agent", "after_agent", "before_tool", "after_tool", "on_error"}

HookConfig(trigger, command, script, enabled) ==
    [trigger |-> trigger, command |-> command, script |-> script, enabled |-> enabled]

self_hooks_ignores_hook_flag ==
    IF hook_config.enabled THEN hook_config.hooks ELSE <<>>

\* HookSystem.__init__: self.hooks
self_hooks ==
    IF hook_config.enabled
    THEN SelectSeq(hook_config.hooks, LAMBDA h : h.enabled)
    ELSE <<>>

OsEnviron == [k \in {"PATH"} |-> "/usr/bin"]

Put(env, key, value) ==
    [k \in (DOMAIN env) \cup {key} |-> IF k = key THEN value ELSE env[k]]

\* Python truthiness of an optional string, and of an optional dict.  A dict is
\* the sequence of its items <<key, type of the value, text of the value>>.
Truthy(v) == v # None /\ v # ""

DictTruthy(d) == d # None /\ d # <<>>

\* json.dumps(tool_params): a TypeError for a value JSON cannot carry.
json_dumps_raises(tool_params) ==
    \E k \in 1..Len(tool_params) : tool_params[k][2] = "bytes"

RECURSIVE json_items(_)
json_items(d) ==
    IF d = <<>> THEN ""
    ELSE "\"" \o d[1][1] \o "\": \"" \o d[1][3] \o "\""
         \o (IF Len(d) > 1 THEN ", " ELSE "") \o json_items(Tail(d))

json_dumps(tool_params) == "{" \o json_items(tool_params) \o "}"

\* _build_env raises exactly when it reaches json.dumps and json.dumps raises.
build_env_raises(tool_params) ==
    DictTruthy(tool_params) /\ json_dumps_raises(tool_params)

build_env(trigger, tool_name, tool_params, user_message, agent_response, error) ==
    LET e0 == Put(Put(OsEnviron, "AI_AGENT_TRIGGER", trigger), "AI_AGENT_CWD", "/work")
        e1 == IF Truthy(tool_name) THEN Put(e0, "AI_AGENT_TOOL_NAME", tool_name) ELSE e0
        e2 == IF DictTruthy(tool_params)
              THEN Put(e1, "AI_AGENT_TOOL_PARAMS", json_dumps(tool_params)) ELSE e1
        e3 == IF Truthy(user_message)
              THEN Put(e2, "AI_AGENT_USER_MESSAGE", user_message) ELSE e2
        e4 == IF Truthy(agent_response)
              THEN Put(e3, "AI_AGENT_RESPONSE", agent_response) ELSE e3
        \* an exception object is truthy whatever its message; error holds str(error)
        e5 == IF error # None THEN Put(e4, "AI_AGENT_ERROR", error) ELSE e4
    IN  e5

IdleInvocation ==
    [pc |-> "idle", trigger |-> None, env |-> <<>>, idx |-> 0, started |-> <<>>,
     failed |-> {}, leader |-> "none", desc |-> FALSE, returncode |-> None,
     tmp |-> FALSE, timed_out |-> FALSE, orphan |-> FALSE, stale_tmp |-> FALSE,
     penv |-> <<>>]

hook_env_of_latest_trigger(i) ==
    LET running == {j \in callers : inv[j].pc \notin {"idle", "raised", "returned"}}
    IN  inv[CHOOSE j \in running : \A k \in running : k <= j].env

\* The env a trigger_* coroutine hands to _run_hook and on to the hook's
\* process: the dict it built itself, held in its local variable env.
hook_env(i) == inv[i].env

\* The first hook after position idx of self.hooks whose trigger is the firing
\* one (0: none is left): the for loop of the trigger_* methods.
NextHookIndex(r) ==
    LET later == {k \in (r.idx + 1)..Len(self_hooks) : self_hooks[k].trigger = r.trigger}
    IN  IF later = {} THEN 0 ELSE CHOOSE k \in later : \A j \in later : k <= j

\* The positions in self.hooks of the hooks of a trigger, in configuration order.
RECURSIVE MatchingFrom(_, _)
MatchingFrom(trigger, k) ==
    IF k > Len(self_hooks) THEN <<>>
    ELSE (IF self_hooks[k].trigger = trigger THEN <<k>> ELSE <<>>)
         \o MatchingFrom(trigger, k + 1)

MatchingHooks(trigger) == MatchingFrom(trigger, 1)

\* A trigger_* method up to its first await: _build_env, which is outside every
\* try block, and for after_tool the unconditional AI_AGENT_TOOL_RESULT.
Trigger(i, trigger, tool_name, tool_params, user_message, agent_response, error, tool_result) ==
    /\ i \in callers
    /\ inv[i].pc = "idle"
    /\ inv' = [inv EXCEPT ![i] =
         IF build_env_raises(tool_params)
         THEN [@ EXCEPT !.pc = "raised", !.trigger = trigger, !.idx = 0,
                        !.started = <<>>, !.failed = {}, !.timed_out = FALSE,
                        !.env = <<>>]
         ELSE [@ EXCEPT !.pc = "loop", !.trigger = trigger, !.idx = 0, !.started = <<>>,
                        !.failed = {}, !.timed_out = FALSE,
                        !.env = LET env == build_env(trigger, tool_name, tool_params,
                                                     user_message, agent_response, error)
                                IN  IF trigger = "after_tool"
                                    THEN Put(env, "AI_AGENT_TOOL_RESULT", tool_result)
                                    ELSE env]]
    /\ UNCHANGED <<platform, hook_config, callers, permVars, doomVars, pruneVars>>

trigger_before_agent(i, user_message) ==
    Trigger(i, "before_agent", None, None, user_message, None, None, None)

trigger_after_agent(i, user_message, agent_response) ==
    Trigger(i, "after_agent", None, None, user_message, agent_response, None, None)

trigger_before_tool(i, tool_name, tool_params) ==
    Trigger(i, "before_tool", tool_name, tool_params, None, None, None, None)

trigger_after_tool(i, tool_name, tool_params, tool_result) ==
    Trigger(i, "after_tool", tool_name, tool_params, None, None, None, tool_result)

trigger_on_error(i, error) ==
    Trigger(i, "on_error", None, None, None, None, error, None)

\* The for loop ends: the trigger_* method returns to its caller.
TriggerReturns(i) ==
    /\ inv[i].pc = "loop"
    /\ NextHookIndex(inv[i]) = 0
    /\ inv' = [inv EXCEPT ![i].pc = "returned"]
    /\ UNCHANGED <<platform, hook_config, callers, permVars, doomVars, pruneVars>>

\* _run_hook entered for the next matching hook.
EnterHook(r) ==
    [r EXCEPT !.idx = NextHookIndex(r), !.started = Append(@, NextHookIndex(r)),
              !.timed_out = FALSE]

\* _run_hook left: by the return of _run_command or through except Exception.
\* The finally of the script branch has unlinked the script where it applies.
LeaveHook(r, failed, unlinked) ==
    [r EXCEPT !.pc = "loop",
              !.failed = IF failed THEN @ \cup {r.idx} ELSE @,
              !.tmp = FALSE,
              !.stale_tmp = @ \/ (r.tmp /\ ~unlinked),
              !.leader = "none", !.desc = FALSE, !.returncode = None, !.penv = <<>>]

\* if hook.command: await self._run_command(hook.command, ...)
RunHookCommand(i) ==
    /\ inv[i].pc = "loop"
    /\ NextHookIndex(inv[i]) # 0
    /\ self_hooks[NextHookIndex(inv[i])].command # None
    /\ inv' = [inv EXCEPT ![i] = [EnterHook(@) EXCEPT !.pc = "spawn"]]
    /\ UNCHANGED <<platform, hook_config, callers, permVars, doomVars, pruneVars>>

\* elif hook.script: the temporary file is created and written (outside the
\* inner try), then chmod and _run_command run under finally: os.unlink.
RunHookScript(i, outcome) ==
    /\ inv[i].pc = "loop"
    /\ NextHookIndex(inv[i]) # 0
    /\ self_hooks[NextHookIndex(inv[i])].command = None
    /\ self_hooks[NextHookIndex(inv[i])].script # None
    /\ inv' = [inv EXCEPT ![i] =
         CASE outcome = "create_fails" -> LeaveHook(EnterHook(@), TRUE, TRUE)
           [] outcome = "write_fails" ->
                LeaveHook([EnterHook(@) EXCEPT !.tmp = TRUE], TRUE, FALSE)
           [] outcome = "chmod_fails" ->
                LeaveHook([EnterHook(@) EXCEPT !.tmp = TRUE], TRUE, TRUE)
           [] OTHER -> [EnterHook(@) EXCEPT !.tmp = TRUE, !.pc = "spawn"]]
    /\ UNCHANGED <<platform, hook_config, callers, permVars, doomVars, pruneVars>>

ScriptOutcomes == {"create_fails", "write_fails", "chmod_fails", "ok"}

\* neither command nor script: _run_hook does nothing.
RunHookNoop(i) ==
    /\ inv[i].pc = "loop"
    /\ NextHookIndex(inv[i]) # 0
    /\ self_hooks[NextHookIndex(inv[i])].command = None
    /\ self_hooks[NextHookIndex(inv[i])].script = None
    /\ inv' = [inv EXCEPT ![i] = LeaveHook(EnterHook(@), FALSE, TRUE)]
    /\ UNCHANGED <<platform, hook_config, callers, permVars, doomVars, pruneVars>>

\* await asyncio.create_subprocess_shell(...) returns a process, in its own
\* session; penv is the environment the process was given.
SpawnOk(i) ==
    /\ inv[i].pc = "spawn"
    /\ inv' = [inv EXCEPT ![i].pc = "communicate", ![i].leader = "running",
                          ![i].penv = hook_env(i)]
    /\ UNCHANGED <<platform, hook_config, callers, permVars, doomVars, pruneVars>>

\* ... or raises (no such cwd, no more processes): caught by _run_hook.
SpawnFails(i) ==
    /\ inv[i].pc = "spawn"
    /\ inv' = [inv EXCEPT ![i] = LeaveHook(@, TRUE, TRUE)]
    /\ UNCHANGED <<platform, hook_config, callers, permVars, doomVars, pruneVars>>

\* The hook starts a child of its own, which inherits the process group and the pipes.
HookForks(i) ==
    /\ inv[i].leader = "running"
    /\ ~inv[i].desc
    /\ inv' = [inv EXCEPT ![i].desc = TRUE]
    /\ UNCHANGED <<platform, hook_config, callers, permVars, doomVars, pruneVars>>

LeaderExits(i, code) ==
    /\ inv[i].leader = "running"
    /\ inv' = [inv EXCEPT ![i].leader = "zombie", ![i].returncode = code]
    /\ UNCHANGED <<platform, hook_config, callers, permVars, doomVars, pruneVars>>

\* The event loop's child watcher waits for the exited process: its pid is gone.
ChildWatcherReaps(i) ==
    /\ inv[i].leader = "zombie"
    /\ inv' = [inv EXCEPT ![i].leader = "reaped"]
    /\ UNCHANGED <<platform, hook_config, callers, permVars, doomVars, pruneVars>>

DescendantExits(i) ==
    /\ inv[i].desc
    /\ inv' = [inv EXCEPT ![i].desc = FALSE]
    /\ UNCHANGED <<platform, hook_config, callers, permVars, doomVars, pruneVars>>

\* process.communicate() completes: the process has been waited for, and both
\* pipes are at end of file, so no descendant holds them any more.  The exit
\* status is not looked at.
CommunicateReturns(i) ==
    /\ inv[i].pc = "communicate"
    /\ inv[i].leader = "reaped"
    /\ ~inv[i].desc
    /\ inv' = [inv EXCEPT ![i] = LeaveHook(@, inv[i].returncode # "0", TRUE)]
    /\ UNCHANGED <<platform, hook_config, callers, permVars, doomVars, pruneVars>>

kill_on_timeout_posix_spares_leader(r) == [r EXCEPT !.desc = FALSE]

\* killpg(getpgid(pid), SIGKILL): getpgid raises ProcessLookupError, which is
\* passed over, once the pid has been reaped; otherwise the whole group dies.
kill_on_timeout_posix(r) ==
    IF r.leader \in {"running", "zombie"}
    THEN [r EXCEPT !.leader = "zombie",
                   !.returncode = IF r.leader = "running" THEN "-9" ELSE @,
                   !.desc = FALSE]
    ELSE r

\* process.kill(): only the leading process.
kill_on_timeout_win32(r) ==
    IF r.leader = "running"
    THEN [r EXCEPT !.leader = "zombie", !.returncode = "-9"]
    ELSE r

\* except asyncio.TimeoutError: kill, then await process.wait().  On win32
\* process.kill() raises ProcessLookupError for a process the loop has already
\* seen exit; that leaves _run_command and is caught by _run_hook.
Timeout(i) ==
    /\ inv[i].pc = "communicate"
    /\ inv' = [inv EXCEPT ![i] =
         IF platform = "win32" /\ @.leader = "reaped"
         THEN [LeaveHook(@, TRUE, TRUE) EXCEPT !.orphan = @ \/ inv[i].desc,
                                              !.timed_out = TRUE]
         ELSE [(IF platform = "win32" THEN kill_on_timeout_win32(@)
                ELSE kill_on_timeout_posix(@))
               EXCEPT !.pc = "wait", !.timed_out = TRUE]]
    /\ UNCHANGED <<platform, hook_config, callers, permVars, doomVars, pruneVars>>

\* await process.wait() returns; _run_command returns after a timeout.  A
\* descendant still alive now outlives the hook.
WaitReturns(i) ==
    /\ inv[i].pc = "wait"
    /\ inv[i].leader = "reaped"
    /\ inv' = [inv EXCEPT ![i] =
         [LeaveHook(@, TRUE, TRUE) EXCEPT !.orphan = @ \/ inv[i].desc]]
    /\ UNCHANGED <<platform, hook_config, callers, permVars, doomVars, pruneVars>>

\* A process left behind by a timed-out hook ends by itself.
OrphanExits(i) ==
    /\ inv[i].orphan
    /\ inv' = [inv EXCEPT ![i].orphan = FALSE]
    /\ UNCHANGED <<platform, hook_config, callers, permVars, doomVars, pruneVars>>

\* The agent loop goes on after the trigger call returned and may trigger again;
\* what the finished invocation left behind is followed no further.
AgentLoopContinues(i) ==
    /\ inv[i].pc = "returned"
    /\ inv' = [inv EXCEPT ![i] = IdleInvocation]
    /\ UNCHANGED <<platform, hook_config, callers, permVars, doomVars, pruneVars>>


(***************************************************************************)
(* Python's seq[-n:] for n >= 0: the last n elements, and for n = 0 the    *)
(* whole sequence (-0 is 0).                                               *)
(***************************************************************************)
py_slice_last(seq, n) ==
    IF n = 0 \/ n >= Len(seq) THEN seq
    ELSE SubSeq(seq, Len(seq) - n + 1, Len(seq))

\* seq[:n] for n >= 0
py_slice_first(seq, n) ==
    IF n >= Len(seq) THEN seq ELSE SubSeq(seq, 1, n)

(***************************************************************************)
(* Doom-loop detection (graph/safety.py).  A call is [tool, args]; args is *)
(* the sequence of the items of the dict, so equality is structural.       *)
(***************************************************************************)
DOOM_LOOP_THRESHOLD == 3

check_doom_loop_whole_history(calls) ==
    IF Len(calls) < DOOM_LOOP_THRESHOLD THEN FALSE
    ELSE LET last_n == py_slice_last(calls, DOOM_LOOP_THRESHOLD)
             first_call == calls[1]
         IN  \A k \in 1..Len(last_n) :
                 last_n[k].tool = first_call.tool /\ last_n[k].args = first_call.args

check_doom_loop(calls) ==
    IF Len(calls) < DOOM_LOOP_THRESHOLD THEN FALSE
    ELSE LET last_n == py_slice_last(calls, DOOM_LOOP_THRESHOLD)
             first_call == last_n[1]
         IN  \A k \in 1..Len(last_n) :
                 last_n[k].tool = first_call.tool /\ last_n[k].args = first_call.args

\* The loop appends the call just made and asks the detector.
RecordToolCall(tool, args) ==
    /\ Len(recent_tool_calls) < MaxCalls
    /\ recent_tool_calls' = Append(recent_tool_calls, [tool |-> tool, args |-> args])
    /\ doom_loop' = check_doom_loop(recent_tool_calls')
    /\ UNCHANGED <<permVars, hookVars, pruneVars>>

(***************************************************************************)
(* Tool-output pruning (graph/compaction.py).  A message is                *)
(* [type, content, tool_call_id]; content is a sequence of characters.     *)
(***************************************************************************)
estimate_tokens(text) == Len(text) \div 4

Digit(d) == <<"0", "1", "2", "3", "4", "5", "6", "7", "8", "9">>[d + 1]

\* str(n) for n >= 0
RECURSIVE int_to_str(_)
int_to_str(n) ==
    IF n < 10 THEN <<Digit(n)>> ELSE int_to_str(n \div 10) \o <<Digit(n % 10)>>

MarkerHead ==
    <<"\n", "\n", "[", "O", "U", "T", "P", "U", "T", " ", "T", "R", "U", "N",
      "C", "A", "T", "E", "D", " ", "-", " ">>

MarkerTail ==
    <<" ", "t", "o", "k", "e", "n", "s", " ", "r", "e", "m", "o", "v", "e",
      "d", "]">>

\* f"\n\n[OUTPUT TRUNCATED - {removed} tokens removed]"
truncation_marker(removed) == MarkerHead \o int_to_str(removed) \o MarkerTail

ToolMessage(content, tool_call_id) ==
    [type |-> "tool", content |-> content, tool_call_id |-> tool_call_id]

\* The positions i >= k of the ToolMessages, ascending.
RECURSIVE tool_message_indices_from(_, _)
tool_message_indices_from(msgs, k) ==
    IF k > Len(msgs) THEN <<>>
    ELSE (IF msgs[k].type = "tool" THEN <<k>> ELSE <<>>)
         \o tool_message_indices_from(msgs, k + 1)

tool_message_indices(msgs) == tool_message_indices_from(msgs, 1)

Range(seq) == {seq[k] : k \in 1..Len(seq)}

protected_indices(msgs, protected_count) ==
    IF tool_message_indices(msgs) # <<>>
    THEN Range(py_slice_last(tool_message_indices(msgs), protected_count))
    ELSE {}

prune_message(msg, max_token_per_output) ==
    LET token_estimate == estimate_tokens(msg.content)
        max_chars == max_token_per_output * 4
        truncated_content == py_slice_first(msg.content, max_chars)
    IN  IF token_estimate > max_token_per_output
        THEN ToolMessage(truncated_content
                         \o truncation_marker(token_estimate - max_token_per_output),
                         msg.tool_call_id)
        ELSE msg

prune_tool_outputs_no_protection(msgs, max_token_per_output, protected_count) ==
    [i \in 1..Len(msgs) |->
        IF msgs[i].type = "tool"
        THEN prune_message(msgs[i], max_token_per_output)
        ELSE msgs[i]]

prune_tool_outputs(msgs, max_token_per_output, protected_count) ==
    [i \in 1..Len(msgs) |->
        IF msgs[i].type = "tool" /\ i \notin protected_indices(msgs, protected_count)
        THEN prune_message(msgs[i], max_token_per_output)
        ELSE msgs[i]]

NoPrune == [op |-> "none", max_tokens |-> 0, protected_count |-> 0, result |-> <<>>]

PruneToolOutputs(max_token_per_output, protected_count) ==
    /\ pruned' = [op |-> "prune", max_tokens |-> max_token_per_output,
                  protected_count |-> protected_count,
                  result |-> prune_tool_outputs(messages, max_token_per_output,
                                                protected_count)]
    /\ UNCHANGED <<messages, compact, permVars, hookVars, doomVars>>

(***************************************************************************)
(* should_compact (graph/compaction.py).                                   *)
(***************************************************************************)
DEFAULT_CONTEXT_LIMIT == 200000

OUTPUT_RESERVE == 32000

\* 0.85 as the ratio 85 / 100
COMPACTION_THRESHOLD == <<85, 100>>

MODEL_CONTEXT_LIMITS ==
    [m \in {"sonnet", "opus", "haiku", "anthropic/claude-sonnet-4.5",
            "anthropic/claude-opus-4.5", "anthropic/claude-haiku-4.5"} |-> 200000]
    @@ [m \in {"gpt4o", "gpt4o-mini", "openai/gpt-4o", "openai/gpt-4o-mini"} |-> 128000]

get_context_limit(model_name) ==
    IF model_name \in DOMAIN MODEL_CONTEXT_LIMITS
    THEN MODEL_CONTEXT_LIMITS[model_name]
    ELSE DEFAULT_CONTEXT_LIMIT

\* int(n * 0.85): the product is a double and int() drops its fraction, towards
\* zero.  The double nearest 0.85 is below it by less than 2.3e-17, and for
\* |n| < 2^31 neither that nor the rounding of the product moves the product
\* across an integer, so the result is the integer part of 85 n / 100.
py_int_times(n, ratio) ==
    IF n >= 0 THEN (n * ratio[1]) \div ratio[2]
    ELSE 0 - (((0 - n) * ratio[1]) \div ratio[2])

estimate_message_tokens(message) == estimate_tokens(message.content) + 10

RECURSIVE estimate_total_tokens(_)
estimate_total_tokens(msgs) ==
    IF msgs = <<>> THEN 0
    ELSE estimate_message_tokens(Head(msgs)) + estimate_total_tokens(Tail(msgs))

\* The optional int context_limit is <<>> for None and <<n>> for the int n.
effective_context_limit(model_name, context_limit) ==
    IF context_limit = <<>>
    THEN (IF model_name # None /\ model_name # ""
          THEN get_context_limit(model_name)
          ELSE DEFAULT_CONTEXT_LIMIT)
    ELSE context_limit[1]

compaction_threshold(model_name, context_limit) ==
    LET usable_limit == effective_context_limit(model_name, context_limit) - OUTPUT_RESERVE
    IN  py_int_times(usable_limit, COMPACTION_THRESHOLD)

should_compact_at_threshold(msgs, model_name, context_limit) ==
    estimate_total_tokens(msgs) >= compaction_threshold(model_name, context_limit)

should_compact(msgs, model_name, context_limit) ==
    estimate_total_tokens(msgs) > compaction_threshold(model_name, context_limit)

NoCompact == [op |-> "none", model_name |-> None, context_limit |-> <<>>, result |-> FALSE]

ShouldCompact(model_name, context_limit) ==
    /\ compact' = [op |-> "should_compact", model_name |-> model_name,
                   context_limit |-> context_limit,
                   result |-> should_compact(messages, model_name, context_limit)]
    /\ UNCHANGED <<messages, pruned, permVars, hookVars, doomVars>>

(***************************************************************************)
(* Specifications.  Each one runs one component and leaves the others in   *)
(* their initial state.                                                    *)
(***************************************************************************)
PermInit ==
    /\ session_approvals = <<>>
    /\ approval_log = <<>>
    /\ call = NoCall
    /\ default_rules = DEFAULT_RULES
    /\ threads = [t \in ThreadIds |-> IdleThread]

PermIdle ==
    /\ PermInit
    /\ ruleset = <<>>

InvIds == {1, 2}

HookIdle ==
    /\ platform = "posix"
    /\ hook_config = [enabled |-> TRUE, hooks |-> <<>>]
    /\ callers = {}
    /\ inv = [i \in InvIds |-> IdleInvocation]

DoomIdle ==
    /\ recent_tool_calls = <<>>
    /\ doom_loop = FALSE

PruneIdle ==
    /\ messages = <<>>
    /\ pruned = NoPrune
    /\ compact = NoCompact

\* The permission engine in a session.
Init ==
    /\ PermInit
    /\ ruleset \in SessionRulesets
    /\ HookIdle
    /\ DoomIdle
    /\ PruneIdle

Next ==
    \/ \E q \in RememberPairs, a \in PermissionAction : RememberApproval(q[1], q[2], a)
    \/ ClearSessionApprovals
    \/ \E q \in Queries, r \in {None, ruleset}, m \in BOOLEAN :
          EvaluatePermission(q[1], q[2], r, m)
    \/ \E p \in ApprovalPolicy : ApplyPolicy(p)

Spec == Init /\ [][Next]_vars

\* The rule scan alone: rulesets are built rule by rule with merge_rules and
\* queried; the approval cache stays empty.
ScanTools == {Star, s_write, s_read}
ScanTargets == {Star, s_foo_py, s_secrets_env}
ScanRules ==
    {PermissionRule(t, p, a) : t \in {Star, s_write, s_read}, p \in {Star, s_env},
                               a \in PermissionAction}

ScanInit ==
    /\ PermIdle
    /\ HookIdle
    /\ DoomIdle
    /\ PruneIdle

ScanNext ==
    \/ \E r \in ScanRules : MergeRules(r)
    \/ \E t \in ScanTools, p \in ScanTargets, m \in BOOLEAN :
          EvaluatePermission(t, p, ruleset, m)

ScanSpec == ScanInit /\ [][ScanNext]_vars

\* The agents' rulesets: a session takes the ruleset of an agent (known or not)
\* and evaluates tool calls against it, or against the default, with nothing
\* remembered.
AgentTools == {s_write, s_edit, s_bash, s_read}
AgentTargets == {s_foo_py, s_notes_md, s_myplan_txt, s_secrets_env}

AgentNext ==
    \/ \E a \in AgentNames : GetAgentRules(a)
    \/ \E t \in AgentTools, p \in AgentTargets, r \in {None, ruleset}, m \in BOOLEAN :
          EvaluatePermission(t, p, r, m)

AgentSpec == ScanInit /\ [][AgentNext]_vars

\* The session approval cache on its own: decisions are remembered under two
\* different keys (one of them built by two different pairs) and looked up by
\* evaluations against the default rules or against no rules.
MemoryPairs == RememberPairs \cup {<<s_write, s_foo_py>>}

MemoryInit ==
    /\ PermInit
    /\ ruleset \in {DEFAULT_RULES, <<>>}
    /\ HookIdle
    /\ DoomIdle
    /\ PruneIdle

MemoryNext ==
    \/ \E q \in MemoryPairs, a \in PermissionAction : RememberApproval(q[1], q[2], a)
    \/ ClearSessionApprovals
    \/ \E q \in Queries, m \in BOOLEAN : EvaluatePermission(q[1], q[2], ruleset, m)

MemorySpec == MemoryInit /\ [][MemoryNext]_vars

\* A session that uses every function of the permission engine: it takes
\* agents' rulesets, evaluates, applies policies, remembers and clears.
FrameTargets == {<<s_write, s_foo_py>>, <<s_read, s_x_secrets_env>>}

FrameNext ==
    \/ \E a \in AgentNames : GetAgentRules(a)
    \/ \E q \in FrameTargets, r \in {None, ruleset}, m \in BOOLEAN :
          EvaluatePermission(q[1], q[2], r, m)
    \/ \E p \in ApprovalPolicy : ApplyPolicy(p)
    \/ \E q \in FrameTargets, a \in {"allow", "deny"} : RememberApproval(q[1], q[2], a)
    \/ ClearSessionApprovals

FrameSpec == ScanInit /\ [][FrameNext]_vars

\* Two threads of one session call the permission engine at the same time.
ThreadQueries == {<<s_read, s_x_secrets_env>>, <<s_write, s_foo_py>>}

ThreadInit ==
    /\ PermInit
    /\ ruleset = DEFAULT_RULES
    /\ HookIdle
    /\ DoomIdle
    /\ PruneIdle

ThreadNext ==
    \E t \in ThreadIds :
        \/ \E q \in ThreadQueries, m \in BOOLEAN : CallEvaluatePermission(t, q[1], q[2], m)
        \/ GetRememberedApproval(t)
        \/ RuleLoop(t)
        \/ ThreadReturns(t)
        \/ \E q \in ThreadQueries, a \in {"allow", "deny"} :
              CallRememberApproval(t, q[1], q[2], a)
        \/ StoreApproval(t)
        \/ CallClearSessionApprovals(t)
        \/ ClearApprovals(t)

ThreadSpec == ThreadInit /\ [][ThreadNext]_vars

\* The hook dispatcher called by one coroutine of the agent loop.
ConfigTriggers == {"before_tool", "on_error"}

HookUniverse ==
    {HookConfig(t, "cmd", None, TRUE) : t \in ConfigTriggers}
    \cup {HookConfig(t, None, "script", TRUE) : t \in ConfigTriggers}
    \cup {HookConfig(t, None, None, TRUE) : t \in ConfigTriggers}
    \cup {HookConfig("before_tool", "cmd", None, FALSE)}

RECURSIVE SeqsUpTo(_, _)
SeqsUpTo(S, n) ==
    IF n = 0 THEN {<<>>}
    ELSE SeqsUpTo(S, n - 1)
         \cup {Append(q, x) : q \in {t \in SeqsUpTo(S, n - 1) : Len(t) = n - 1}, x \in S}

\* Payloads: present values, empty ones (an empty message, no parameters, an
\* empty tool output, an exception without a message) and parameters JSON
\* cannot carry.
UserMessages == {"hi", ""}
AgentResponses == {"done", ""}
ToolNames == {"bash"}
ToolParams == {<< <<"path", "str", "a">> >>, <<>>, << <<"data", "bytes", "">> >>}
ToolResults == {"out", ""}
Errors == {"boom", ""}

HookInit ==
    /\ PermIdle
    /\ DoomIdle
    /\ PruneIdle
    /\ platform \in {"posix", "win32"}
    /\ hook_config \in [enabled : BOOLEAN, hooks : SeqsUpTo(HookUniverse, MaxHooks)]
    /\ callers = {1}
    /\ inv = [i \in InvIds |-> IdleInvocation]

HookNext ==
    \E i \in InvIds :
        \/ \E m \in UserMessages : trigger_before_agent(i, m)
        \/ \E m \in UserMessages, r \in AgentResponses : trigger_after_agent(i, m, r)
        \/ \E t \in ToolNames, p \in ToolParams : trigger_before_tool(i, t, p)
        \/ \E t \in ToolNames, p \in ToolParams, r \in ToolResults :
              trigger_after_tool(i, t, p, r)
        \/ \E e \in Errors : trigger_on_error(i, e)
        \/ TriggerReturns(i)
        \/ RunHookCommand(i)
        \/ \E o \in ScriptOutcomes : RunHookScript(i, o)
        \/ RunHookNoop(i)
        \/ SpawnOk(i)
        \/ SpawnFails(i)
        \/ HookForks(i)
        \/ \E c \in {"0", "1"} : LeaderExits(i, c)
        \/ ChildWatcherReaps(i)
        \/ DescendantExits(i)
        \/ CommunicateReturns(i)
        \/ Timeout(i)
        \/ WaitReturns(i)
        \/ OrphanExits(i)
        \/ AgentLoopContinues(i)

HookSpec == HookInit /\ [][HookNext]_vars

\* What the event loop guarantees: a coroutine that can go on is resumed, the
\* timer of wait_for fires, and an exited child is waited for.  Nothing makes
\* a hook process exit or fork.
HookFairness ==
    \A i \in InvIds :
        /\ WF_vars(TriggerReturns(i) \/ RunHookCommand(i) \/ RunHookNoop(i)
                      \/ \E o \in ScriptOutcomes : RunHookScript(i, o))
        /\ WF_vars(SpawnOk(i) \/ SpawnFails(i))
        /\ WF_vars(Timeout(i))
        /\ WF_vars(ChildWatcherReaps(i))
        /\ WF_vars(WaitReturns(i))

HookFairSpec == HookSpec /\ HookFairness

\* Two coroutines of the surrounding system call the dispatcher at the same
\* time: one reports tool calls, the other errors.  The hooks are commands.
OverlapUniverse == {HookConfig(t, "cmd", None, TRUE) : t \in {"after_tool", "on_error"}}

OverlapInit ==
    /\ PermIdle
    /\ DoomIdle
    /\ PruneIdle
    /\ platform = "posix"
    /\ hook_config \in [enabled : {TRUE}, hooks : SeqsUpTo(OverlapUniverse, MaxHooks)]
    /\ callers = InvIds
    /\ inv = [i \in InvIds |-> IdleInvocation]

OverlapNext ==
    \E i \in InvIds :
        \/ \E t \in ToolNames, r \in ToolResults : trigger_after_tool(i, t, <<>>, r)
        \/ \E e \in Errors : trigger_on_error(i, e)
        \/ TriggerReturns(i)
        \/ RunHookCommand(i)
        \/ SpawnOk(i)
        \/ SpawnFails(i)
        \/ LeaderExits(i, "0")
        \/ ChildWatcherReaps(i)
        \/ CommunicateReturns(i)
        \/ Timeout(i)
        \/ WaitReturns(i)
        \/ AgentLoopContinues(i)

OverlapSpec == OverlapInit /\ [][OverlapNext]_vars

\* The loop detector fed one tool call after the other.
CallTools == {None, "read", "bash"}
CallArgs == {<< <<"path", "a">> >>, << <<"path", "b">> >>}

DoomInit ==
    /\ PermIdle
    /\ HookIdle
    /\ DoomIdle
    /\ PruneIdle

DoomNext == \E t \in CallTools, a \in CallArgs : RecordToolCall(t, a)

DoomSpec == DoomInit /\ [][DoomNext]_vars

\* Pruning applied to every message list of the bounds.
Letters == <<"a", "b", "c", "d", "e">>

Content(n) == [k \in 1..n |-> Letters[((k - 1) % 5) + 1]]

ToolContents == {Content(2), Content(9), Content(60)}
OtherContents == {Content(2), Content(60)}

MessageUniverse ==
    {ToolMessage(c, id) : c \in ToolContents, id \in {"call_1", "call_2"}}
    \cup {[type |-> "human", content |-> c, tool_call_id |-> None] : c \in OtherContents}

PruneInit ==
    /\ PermIdle
    /\ HookIdle
    /\ DoomIdle
    /\ messages \in SeqsUpTo(MessageUniverse, MaxMessages)
    /\ pruned = NoPrune
    /\ compact = NoCompact

PruneNext ==
    \E m \in 0..MaxTokensArg, c \in 0..MaxProtectedArg : PruneToolOutputs(m, c)

PruneSpec == PruneInit /\ [][PruneNext]_vars

\* should_compact asked about every message list of the bounds, with the
\* limit of a model, the default, and explicit limits whose thresholds lie
\* among the totals these lists have.
ModelNames == {None, "", "gpt4o", "sonnet", "unknown-model"}

UsableLimits == {0 - 32000, 0 - 10, 0, 12, 15, 24, 30, 40, 60}

ContextLimits == {<<>>} \cup {<<OUTPUT_RESERVE + u>> : u \in UsableLimits}

CompactMessages ==
    {ToolMessage(Content(2), "call_1"), ToolMessage(Content(9), "call_1"),
     [type |-> "human", content |-> Content(60), tool_call_id |-> None]}

CompactInit ==
    /\ PermIdle
    /\ HookIdle
    /\ DoomIdle
    /\ messages \in SeqsUpTo(CompactMessages, MaxMessages)
    /\ pruned = NoPrune
    /\ compact = NoCompact

CompactNext ==
    \E m \in ModelNames, c \in ContextLimits : ShouldCompact(m, c)

CompactSpec == CompactInit /\ [][CompactNext]_vars

(***************************************************************************)
(* Claims about the permission engine.                                     *)
(***************************************************************************)
MatchingRules(c) ==
    {i \in 1..Len(c.rules) : rule_matches(c.rules[i], c.tool, c.pattern)}

SetMax(S) == CHOOSE m \in S : \A x \in S : x <= m

\* C1: the rule scan is last-match-wins: whenever some rule of the ruleset
\* matches the query, an evaluation not answered from memory returns the action
\* of the matching rule nearest the end; so a matching rule appended to the end
\* of any ruleset decides the result, whatever the earlier rules are.
C1_LastMatchWins ==
    (call.op = "evaluate" /\ ~call.from_memory /\ MatchingRules(call) # {})
        => call.result = call.rules[SetMax(MatchingRules(call))].action

\* C1 witness: (write, *, ASK) appended after (*, *, ALLOW); (write, foo.py) is ASK.
C1_Witness ==
    /\ call.op = "evaluate"
    /\ call.rules = << PermissionRule(Star, Star, "allow"),
                       PermissionRule(s_write, Star, "ask") >>
    /\ call.tool = s_write
    /\ call.pattern = s_foo_py
    /\ MatchingRules(call) = {1, 2}
    /\ call.result = "ask"

\* C2: apply_policy(DENY, p) is DENY under every policy p, so a DENY that the
\* evaluation produced is never turned into ALLOW or ASK by the policy.
C2_DenyIsNeverOverridden ==
    (call.op = "apply_policy" /\ call.result = "deny") => call.final = "deny"

\* C2 witness: under DEFAULT_RULES the read of s.env is DENY by rule, and stays
\* DENY under YOLO.
C2_Witness ==
    /\ call.op = "apply_policy"
    /\ call.policy = "yolo"
    /\ call.rules = DEFAULT_RULES
    /\ call.tool = s_read
    /\ call.pattern = s_secrets_env
    /\ ~call.from_memory
    /\ call.result = "deny"
    /\ call.final = "deny"

LogKey(e) == make_approval_key(e.tool, e.pattern)

C5_TriggersNeverRaise == \A i \in InvIds : inv[i].pc # "raised"

\* C6: within one trigger invocation every enabled hook of the firing trigger is
\* started exactly once, in configuration order, whatever happens to the hooks
\* before it, and a hook is started only when no process of an earlier hook of
\* the invocation is left running.
C6_HooksRunOnceInOrder ==
    \A i \in InvIds :
        /\ inv[i].pc \in {"returned", "raised"}
              => inv[i].started = MatchingHooks(inv[i].trigger)
        /\ inv[i].pc # "idle"
              => inv[i].started
                   = py_slice_first(MatchingHooks(inv[i].trigger), Len(inv[i].started))
        /\ inv[i].pc \in {"spawn", "communicate", "wait"} => ~inv[i].orphan

\* C7: where process groups can be signalled, no process of a timed-out hook is
\* still running once _run_command has returned.
C7_TimeoutKillsWholeGroup ==
    \A i \in InvIds : platform = "posix" => ~inv[i].orphan

(***************************************************************************)
(* Claims about the loop detector.                                         *)
(***************************************************************************)
SameCall(a, b) == a.tool = b.tool /\ a.args = b.args

\* C8: after every appended call the flag is true exactly when the history has at
\* least three entries and its three most recent entries carry the same
\* (tool, args); older entries never matter.
C8_DoomLoopIffLastThreeEqual ==
    LET n == Len(recent_tool_calls)
    IN  doom_loop =
          ( /\ n >= 3
            /\ SameCall(recent_tool_calls[n - 2], recent_tool_calls[n - 1])
            /\ SameCall(recent_tool_calls[n - 2], recent_tool_calls[n]) )

\* C8 witness: four calls, the oldest different from the three identical ones
\* after it: the flag is up.
C8_Witness ==
    /\ Len(recent_tool_calls) = 4
    /\ ~SameCall(recent_tool_calls[1], recent_tool_calls[2])
    /\ SameCall(recent_tool_calls[2], recent_tool_calls[3])
    /\ SameCall(recent_tool_calls[3], recent_tool_calls[4])
    /\ doom_loop

(***************************************************************************)
(* Claims about pruning.                                                   *)
(***************************************************************************)
\* The last protected_count ToolMessages of the list, as the claims word it.
LastToolMessages(msgs, protected_count) ==
    {i \in 1..Len(msgs) :
        /\ msgs[i].type = "tool"
        /\ Cardinality({j \in (i + 1)..Len(msgs) : msgs[j].type = "tool"})
              < protected_count}

OverThreshold(msg, max_tokens) == Len(msg.content) \div 4 > max_tokens

\* C9: prune_tool_outputs leaves exactly the last protected_count ToolMessages
\* exempt; every other ToolMessage over the threshold comes out as the first
\* max_tokens * 4 characters of its content followed by the marker that states
\* the number of tokens removed.
C9_PrunesAllButLastProtected ==
    pruned.op = "prune" =>
        \A i \in 1..Len(messages) :
            messages[i].type = "tool" =>
                IF i \in LastToolMessages(messages, pruned.protected_count)
                THEN pruned.result[i] = messages[i]
                ELSE OverThreshold(messages[i], pruned.max_tokens) =>
                        pruned.result[i].content =
                            py_slice_first(messages[i].content, pruned.max_tokens * 4)
                            \o truncation_marker((Len(messages[i].content) \div 4)
                                                 - pruned.max_tokens)

\* C10: the result has the length of the input, and every message that is not a
\* ToolMessage, or is at or below the threshold, or is one of the last
\* protected_count ToolMessages, is at its position unchanged.
C10_PruneFrame ==
    pruned.op = "prune" =>
        /\ Len(pruned.result) = Len(messages)
        /\ \A i \in 1..Len(messages) :
              ( \/ messages[i].type # "tool"
                \/ ~OverThreshold(messages[i], pruned.max_tokens)
                \/ i \in LastToolMessages(messages, pruned.protected_count) )
                  => pruned.result[i] = messages[i]

\* C10 witness: an old oversized tool output was truncated while an oversized
\* protected one and an oversized human message came through unchanged.
C10_Witness ==
    /\ pruned.op = "prune"
    /\ pruned.protected_count = 1
    /\ Len(messages) = 3
    /\ \E i, j, k \in 1..3 :
          /\ i < j
          /\ messages[i].type = "tool" /\ messages[j].type = "tool"
          /\ messages[k].type = "human"
          /\ OverThreshold(messages[i], pruned.max_tokens)
          /\ OverThreshold(messages[j], pruned.max_tokens)
          /\ OverThreshold(messages[k], pruned.max_tokens)
          /\ pruned.result[i] # messages[i]
          /\ pruned.result[j] = messages[j]
          /\ pruned.result[k] = messages[k]

\* C11: every ToolMessage that is not among the last protected_count
\* ToolMessages and is over the threshold comes out of prune_tool_outputs with a
\* content strictly shorter than before, the marker included, and with the same
\* tool_call_id.
C11_TruncatedIsShorter ==
    pruned.op = "prune" =>
        \A i \in 1..Len(messages) :
            ( /\ messages[i].type = "tool"
              /\ i \notin LastToolMessages(messages, pruned.protected_count)
              /\ OverThreshold(messages[i], pruned.max_tokens) )
                => /\ Len(pruned.result[i].content) < Len(messages[i].content)
                   /\ pruned.result[i].tool_call_id = messages[i].tool_call_id

(***************************************************************************)
(* Claims about should_compact.                                            *)
(***************************************************************************)
\* The estimated total as the claims word it: the sum over the messages of
\* (len(content) div 4 + 10).
RECURSIVE ClaimedTotal(_, _)
ClaimedTotal(msgs, k) ==
    IF k > Len(msgs) THEN 0
    ELSE (Len(msgs[k].content) \div 4) + 10 + ClaimedTotal(msgs, k + 1)

\* The context limit in force for a call: the explicit one, else the model's,
\* else the default.
LimitInForce(c) == effective_context_limit(c.model_name, c.context_limit)

\* total > integer part of 0.85 * usable, in whole numbers: for usable >= 0 that
\* is total > 0.85 * usable, for usable < 0 (integer part towards zero) it is
\* total - 1 >= 0.85 * usable.
ExceedsIntegerPart(total, usable) ==
    IF usable >= 0 THEN 100 * total > 85 * usable
    ELSE 100 * (total - 1) >= 85 * usable

\* C12: should_compact is true exactly when the estimated total strictly exceeds
\* the integer part of 0.85 * (context limit - 32000), so it is false at exactly
\* the threshold; with the limit 200000 the threshold is 142800.
C12_ShouldCompactThreshold ==
    compact.op = "should_compact" =>
        /\ compact.result =
              ExceedsIntegerPart(ClaimedTotal(messages, 1), LimitInForce(compact) - 32000)
        /\ LimitInForce(compact) = 200000
              => compact.result = (ClaimedTotal(messages, 1) > 142800)

\* C12 witness: a call whose total is exactly the (positive) threshold answers
\* false.
C12_Witness ==
    /\ compact.op = "should_compact"
    /\ compact.context_limit # <<>>
    /\ LimitInForce(compact) > 32000
    /\ 100 * ClaimedTotal(messages, 1) <= 85 * (LimitInForce(compact) - 32000)
    /\ 100 * (ClaimedTotal(messages, 1) + 1) > 85 * (LimitInForce(compact) - 32000)
    /\ ClaimedTotal(messages, 1) > 0
    /\ ~compact.result

(***************************************************************************)
(* Further claims about the permission engine.                             *)
(***************************************************************************)
\* C13: an evaluation that the approval memory does not answer and in whose
\* ruleset no rule matches the query (the empty ruleset included) returns ASK.
C13_NoMatchIsAsk ==
    (call.op = "evaluate" /\ ~call.from_memory /\ MatchingRules(call) = {})
        => call.result = "ask"

\* C13 witness: memory is consulted and holds a decision for another query, the
\* ruleset is not empty, none of its rules matches, and the answer is ASK.
C13_Witness ==
    /\ call.op = "evaluate"
    /\ call.check_memory
    /\ session_approvals # <<>>
    /\ ~call.from_memory
    /\ call.rules # <<>>
    /\ MatchingRules(call) = {}
    /\ call.result = "ask"

\* C14: when memory is consulted and holds a decision for the query, that
\* decision is the final decision after the policy has been applied, under
\* every policy and every ruleset.
C14_MemoryWinsOverPolicy ==
    (call.op = "apply_policy" /\ call.from_memory) => call.final = call.result

\* A glob match in either direction.
EitherWay(a, b) == fnmatch(a, b) \/ fnmatch(b, a)

\* C15: in an evaluation, a rule is treated as matching the query exactly when
\* the tool name and the rule's tool glob match in either direction and the
\* query pattern and the rule's pattern glob match in either direction.
C15_BidirectionalBothSides ==
    call.op = "evaluate" =>
        \A i \in 1..Len(call.rules) :
            rule_matches(call.rules[i], call.tool, call.pattern)
                = ( /\ EitherWay(call.tool, call.rules[i].permission)
                    /\ EitherWay(call.pattern, call.rules[i].pattern) )

\* The decision the default ruleset gives for the query of a call.
DefaultDecision(c) == rule_scan(c.tool, c.pattern, DEFAULT_RULES, "ask")

\* C16: with nothing remembered, an evaluation against the coder's ruleset gives
\* what the default ruleset gives; against the researcher's, DENY for write and
\* edit on every target and ASK for bash; against the planner's, DENY for edit,
\* ALLOW for write on targets matching *.md or *plan* and DENY for write on
\* every other target.
C16_AgentRulesetDecisions ==
    (call.op = "evaluate" /\ session_approvals = <<>>) =>
        /\ call.rules = get_agent_rules("coder") => call.result = DefaultDecision(call)
        /\ call.rules = get_agent_rules("researcher") =>
              /\ call.tool \in {s_write, s_edit} => call.result = "deny"
              /\ call.tool = s_bash => call.result = "ask"
        /\ call.rules = get_agent_rules("planner") =>
              /\ call.tool = s_edit => call.result = "deny"
              /\ call.tool = s_write =>
                    call.result = IF \/ fnmatch(call.pattern, s_md)
                                     \/ fnmatch(call.pattern, s_plan)
                                  THEN "allow" ELSE "deny"

\* C16 witness: the planner's ruleset allows the write of a plan file, which
\* the default ruleset asks about.
C16_Witness ==
    /\ call.op = "evaluate"
    /\ ruleset = get_agent_rules("planner")
    /\ call.rules = ruleset
    /\ call.tool = s_write
    /\ call.pattern = s_myplan_txt
    /\ call.result = "allow"
    /\ DefaultDecision(call) = "ask"

\* C17: the ruleset get_agent_rules returns is the base ruleset followed by the
\* agent's override list, entry by entry in the original order (the base alone
\* for an unknown agent); it is not empty and holds the catch-all (*, *, ALLOW);
\* and in an evaluation against such a ruleset some rule always matches.
C17_AgentRulesAreBaseThenOverrides ==
    /\ call.op = "get_agent_rules" =>
          LET overrides ==
                  IF call.agent \in {"coder", "researcher", "planner"}
                  THEN AGENT_PERMISSIONS(call.agent) ELSE <<>>
          IN  /\ Len(ruleset) = Len(DEFAULT_RULES) + Len(overrides)
              /\ \A k \in 1..Len(DEFAULT_RULES) : ruleset[k] = DEFAULT_RULES[k]
              /\ \A k \in 1..Len(overrides) :
                    ruleset[Len(DEFAULT_RULES) + k] = overrides[k]
              /\ ruleset # <<>>
              /\ \E k \in 1..Len(ruleset) :
                    ruleset[k] = PermissionRule(Star, Star, "allow")
    /\ (call.op = "evaluate" /\ \E a \in AgentNames : call.rules = get_agent_rules(a))
          => MatchingRules(call) # {}

\* C17 witness: the researcher's ruleset has just been produced: ten rules, the
\* catch-all first, the override of bash last.
C17_Witness ==
    /\ call.op = "get_agent_rules"
    /\ call.agent = "researcher"
    /\ Len(ruleset) = 10
    /\ ruleset[1] = PermissionRule(Star, Star, "allow")
    /\ ruleset[8] = PermissionRule(s_write, Star, "deny")
    /\ ruleset[10] = PermissionRule(s_bash, Star, "ask")

(***************************************************************************)
(* Further claims about the hook dispatcher.                               *)
(***************************************************************************)
\* The trigger-specific keys and the triggers whose payload carries their value.
SpecificKeys ==
    [k \in {"AI_AGENT_TOOL_NAME", "AI_AGENT_TOOL_PARAMS"} |-> {"before_tool", "after_tool"}]
    @@ [k \in {"AI_AGENT_TOOL_RESULT"} |-> {"after_tool"}]
    @@ [k \in {"AI_AGENT_USER_MESSAGE"} |-> {"before_agent", "after_agent"}]
    @@ [k \in {"AI_AGENT_RESPONSE"} |-> {"after_agent"}]
    @@ [k \in {"AI_AGENT_ERROR"} |-> {"on_error"}]

\* C18: the environment of a trigger invocation always holds AI_AGENT_TRIGGER
\* and AI_AGENT_CWD; a trigger-specific key is in it only for a trigger whose
\* payload carries its value, and never with the empty string as its value.
C18_EnvKeysOnlyWhenPresent ==
    \A i \in InvIds :
        inv[i].pc \notin {"idle", "raised"} =>
            /\ {"AI_AGENT_TRIGGER", "AI_AGENT_CWD"} \subseteq DOMAIN inv[i].env
            /\ inv[i].env["AI_AGENT_TRIGGER"] = inv[i].trigger
            /\ \A k \in DOMAIN SpecificKeys :
                  k \in DOMAIN inv[i].env =>
                      /\ inv[i].trigger \in SpecificKeys[k]
                      /\ inv[i].env[k] # ""

\* C19: whenever no hook is running (every _run_hook entered so far has
\* returned), no temporary script file exists: neither the one of the hook that
\* just ran nor one left by an earlier hook of the invocation.
C19_TempScriptRemoved ==
    \A i \in InvIds :
        inv[i].pc \in {"loop", "returned"} => (~inv[i].tmp /\ ~inv[i].stale_tmp)

\* The hook an invocation is running.
CurrentHook(r) == self_hooks[r.idx]

\* C20: whenever an invocation is spawning a hook process or has one, hooks are
\* enabled globally, the hook is one of the configured hooks with its own
\* enabled flag set and the firing trigger as its trigger, and it has a command
\* or a script; a hook with neither that was reached has spawned nothing and
\* has not been recorded as failed.
C20_SpawnOnlyEnabledMatching ==
    \A i \in InvIds :
        /\ (inv[i].pc \in {"spawn", "communicate", "wait"} \/ inv[i].leader # "none") =>
              /\ hook_config.enabled
              /\ \E k \in 1..Len(hook_config.hooks) :
                    hook_config.hooks[k] = CurrentHook(inv[i])
              /\ CurrentHook(inv[i]).enabled
              /\ CurrentHook(inv[i]).trigger = inv[i].trigger
              /\ CurrentHook(inv[i]).command # None \/ CurrentHook(inv[i]).script # None
        /\ \A k \in 1..Len(inv[i].started) :
              LET h == self_hooks[inv[i].started[k]]
              IN  (h.command = None /\ h.script = None) => inv[i].started[k] \notin inv[i].failed

\* C20 witness: the first configured hook is disabled and is skipped; the
\* second has been spawned for its trigger.
C20_Witness ==
    /\ hook_config.enabled
    /\ Len(hook_config.hooks) = 2
    /\ ~hook_config.hooks[1].enabled
    /\ hook_config.hooks[1].trigger = inv[1].trigger
    /\ inv[1].pc = "communicate"
    /\ inv[1].started = <<1>>
    /\ CurrentHook(inv[1]) = hook_config.hooks[2]

\* C21: the cache is keyed, not append-only.  A remember_approval(t, p, a) step
\* leaves exactly one entry under the key of (t, p), holding a, and leaves the
\* entry of every other key as it was; so after remember_approval(t, p, a1) and
\* then remember_approval(t, p, a2), evaluate_permission(t, p) with memory
\* consulted returns a2.
RememberStep ==
    /\ Len(approval_log') = Len(approval_log) + 1
    /\ SubSeq(approval_log', 1, Len(approval_log)) = approval_log

C21_Keyed ==
    RememberStep =>
        LET e == approval_log'[Len(approval_log')]
            key == make_approval_key(e.tool, e.pattern)
        IN  /\ DOMAIN session_approvals' = DOMAIN session_approvals \cup {key}
            /\ session_approvals'[key] = e.action
            /\ \A k \in DOMAIN session_approvals \ {key} :
                  session_approvals'[k] = session_approvals[k]

C21_SecondWins ==
    \A n \in 2..Len(approval_log) :
        LET e1 == approval_log[n - 1]
            e2 == approval_log[n]
        IN  (n = Len(approval_log) /\ e1.tool = e2.tool /\ e1.pattern = e2.pattern)
                => /\ evaluate_permission(e2.tool, e2.pattern, ruleset, TRUE) = e2.action
                   /\ answered_from_memory(e2.tool, e2.pattern, TRUE)

C21_KeyedNotAppendOnly == [][C21_Keyed]_vars /\ []C21_SecondWins

\* The same pair was remembered twice with different actions while another key
\* holds an entry, and the pair is then evaluated with memory consulted.
C21_Witness ==
    /\ Len(approval_log) = 2
    /\ approval_log[1].tool = approval_log[2].tool
    /\ approval_log[1].pattern = approval_log[2].pattern
    /\ approval_log[1].action # approval_log[2].action
    /\ call.op = "evaluate" /\ call.check_memory
    /\ call.tool = approval_log[2].tool /\ call.pattern = approval_log[2].pattern
    /\ call.result = approval_log[2].action


\* C22: clear_session_approvals() empties the cache wholesale.  While no
\* remember_approval has happened since the latest clear (approval_log is
\* empty), the cache holds nothing and evaluate_permission with
\* check_memory = True returns, for every (tool, pattern) and every ruleset,
\* what it returns with check_memory = False.
C22_ClearForgetsEverything ==
    approval_log = <<>> =>
        /\ session_approvals = <<>>
        /\ \A q \in Queries, r \in {None, ruleset} :
              /\ ~answered_from_memory(q[1], q[2], TRUE)
              /\ evaluate_permission(q[1], q[2], r, TRUE)
                    = evaluate_permission(q[1], q[2], r, FALSE)
        /\ (call.op = "evaluate" /\ call.check_memory) =>
              /\ ~call.from_memory
              /\ call.result = rule_scan(call.tool, call.pattern, call.rules, "ask")

\* A pair whose decision was remembered and then dropped by a clear is
\* evaluated with memory consulted before anything is remembered again.
C22_Witness ==
    /\ approval_log = <<>>
    /\ call.op = "evaluate" /\ call.check_memory
    /\ make_approval_key(call.tool, call.pattern) \in call.cleared


\* C23: every value stored in the cache is ALLOW or DENY, so an evaluation
\* answered from memory never returns ASK.
C23_MemoryNeverAsks ==
    /\ \A k \in DOMAIN session_approvals : session_approvals[k] \in {"allow", "deny"}
    /\ (call.op \in {"evaluate", "apply_policy"} /\ call.from_memory) => call.result # "ask"

\* C28: remembered decisions are isolated per (tool, pattern) pair, also when a
\* name or a pattern contains ':'.  A remember_approval(t1, p1, a) step never
\* changes what evaluate_permission returns for a different pair (t2, p2).
C28_Isolated ==
    RememberStep =>
        LET e == approval_log'[Len(approval_log')]
        IN  \A q \in Queries, r \in {None, ruleset}, m \in BOOLEAN :
                q # <<e.tool, e.pattern>> =>
                    evaluate_permission(q[1], q[2], r, m)'
                        = evaluate_permission(q[1], q[2], r, m)

C28_RememberedPerPair == [][C28_Isolated]_vars


\* The cache that a complete sequence of remember_approval writes leaves.
RECURSIVE Replay(_)
Replay(log) ==
    IF log = <<>> THEN <<>>
    ELSE LET before == Replay(SubSeq(log, 1, Len(log) - 1))
             e == log[Len(log)]
         IN  [k \in DOMAIN before \cup {LogKey(e)} |->
                 IF k = LogKey(e) THEN e.action ELSE before[k]]

\* The step is a read or a write of the cache by thread t.
CacheAccessBy(t) ==
    /\ threads[t].pc \in {"get", "store", "clear"}
    /\ threads'[t] # threads[t]

C24_OneAccessAtATime ==
    Cardinality({t \in ThreadIds : CacheAccessBy(t)}) <= 1

C24_ObservesCompleteWrites ==
    /\ session_approvals = Replay(approval_log)
    /\ \A t \in ThreadIds :
          threads[t].pc \in {"scan", "return"} =>
              LET cache == Replay(threads[t].seen)
                  key == make_approval_key(threads[t].tool, threads[t].pattern)
              IN  threads[t].remembered = IF key \in DOMAIN cache THEN cache[key] ELSE None

C25_Frame ==
    /\ default_rules = DEFAULT_RULES /\ default_rules' = DEFAULT_RULES
    /\ call'.op \in {"evaluate", "apply_policy", "get_agent_rules"}
          => session_approvals' = session_approvals
    /\ call'.op \in {"evaluate", "apply_policy"} => ruleset' = ruleset
    /\ (\E k \in DOMAIN session_approvals' :
            k \in DOMAIN session_approvals => session_approvals'[k] # session_approvals[k])
          => RememberStep
    /\ DOMAIN session_approvals \ DOMAIN session_approvals' # {} => call'.op = "clear"
    /\ call'.op = "get_agent_rules" => ruleset' = get_agent_rules(call'.agent)

C25_NoSideEffects == [][C25_Frame]_vars

\* get_agent_rules is called twice in a row for an agent that has overrides,
\* in a session whose cache holds an entry.
C25_Witness ==
    /\ call.op = "get_agent_rules" /\ call.again
    /\ AGENT_PERMISSIONS(call.agent) # <<>>
    /\ ruleset = get_agent_rules(call.agent)
    /\ session_approvals # <<>>


\* C26: concurrent trigger invocations do not touch each other.  A step of one
\* invocation leaves the other's record as it is; an invocation's environment
\* is set when it is triggered, carries its own trigger and stays as built
\* until the invocation is over; every hook process is given the environment of
\* its own invocation; and the hooks an invocation has started are its own
\* trigger's matching hooks, in configuration order, all of them once it
\* returns.
C26_OwnHooksOwnEnv ==
    \A i \in InvIds :
        /\ inv[i].pc \notin {"idle", "raised"} =>
              /\ inv[i].env["AI_AGENT_TRIGGER"] = inv[i].trigger
              /\ inv[i].started
                   = py_slice_first(MatchingHooks(inv[i].trigger), Len(inv[i].started))
              /\ \A k \in 1..Len(inv[i].started) :
                    self_hooks[inv[i].started[k]].trigger = inv[i].trigger
        /\ inv[i].pc = "returned" => inv[i].started = MatchingHooks(inv[i].trigger)
        /\ inv[i].pc \in {"communicate", "wait"} => inv[i].penv = inv[i].env

C26_StepIsLocal ==
    /\ Cardinality({i \in InvIds : inv'[i] # inv[i]}) <= 1
    /\ \A i \in InvIds :
          (inv[i].pc \notin {"idle", "returned"} /\ inv'[i].pc # "idle")
              => (inv'[i].env = inv[i].env /\ inv'[i].trigger = inv[i].trigger)

C26_InvocationsIsolated == []C26_OwnHooksOwnEnv /\ [][C26_StepIsLocal]_vars

\* Two invocations of different triggers each have a hook process running at
\* the same time, and the one triggered first was given its own environment.
C26_Witness ==
    /\ inv[1].pc = "communicate" /\ inv[2].pc = "communicate"
    /\ inv[1].leader = "running" /\ inv[2].leader = "running"
    /\ inv[1].trigger = "after_tool" /\ inv[2].trigger = "on_error"
    /\ inv[1].penv # inv[2].penv
    /\ Len(MatchingHooks("after_tool")) = 1 /\ Len(MatchingHooks("on_error")) = 1


\* C27: every trigger invocation eventually returns, even when a hook process
\* never exits on its own.  A call of a trigger method is eventually over; one
\* that has reached its hooks eventually returns to the caller; and a hook that
\* had a process is left only because the process and everything holding its
\* pipes ended by itself, or after the timeout expired and the kill was made.
InHooks(i) == inv[i].pc \in {"loop", "spawn", "communicate", "wait"}

C27_HookEnds ==
    \A i \in InvIds :
        (inv[i].pc \in {"communicate", "wait"} /\ inv'[i].pc = "loop") =>
            \/ inv'[i].timed_out
            \/ (inv[i].leader = "reaped" /\ ~inv[i].desc)

C27_TriggerReturns ==
    /\ \A i \in InvIds : InHooks(i) ~> (inv[i].pc = "returned")
    /\ \A i \in InvIds : (inv[i].pc # "idle") ~> (inv[i].pc \in {"returned", "raised"})
    /\ [][C27_HookEnds]_vars

\* An invocation has returned after its last hook ran into the timeout.
C27_Witness ==
    /\ inv[1].pc = "returned"
    /\ inv[1].timed_out
    /\ inv[1].started # <<>>


\* C29: prune_tool_outputs is idempotent: pruning the list a pass returned, with
\* the same max_token_per_output and protected_count, returns that list
\* unchanged.
C29_PruneIdempotent ==
    pruned.op = "prune" =>
        prune_tool_outputs(pruned.result, pruned.max_tokens, pruned.protected_count)
            = pruned.result


\* C30: should_compact never recommends compaction for an empty message list,
\* whatever the context limit, also one at or below OUTPUT_RESERVE.
C30_EmptyNeverCompacts ==
    (compact.op = "should_compact" /\ messages = <<>>) => ~compact.result

====
